---- MODULE Spec2Model ----
(***************************************************************************)
(* Model of the @oramaSearchable GraphQL transformer plugin                *)
(* (src/src/OramaSearchableTransformer.ts): the visit of annotated types,  *)
(* the schema augmentation, the validation pass that resolves every        *)
(* field-shape mapping against the document (FIFO worklist + recursive     *)
(* expansion) and the hand-over of resolved schemas to provisioning.       *)
(***************************************************************************)
EXTENDS Integers, Sequences, FiniteSets, TLC

(***************************************************************************)
(* Bounds of the model.                                                    *)
(***************************************************************************)
MaxShapeLen == 2
MaxDirectives == 3
MaxRuns == 2

(***************************************************************************)
(* Program constants.                                                      *)
(***************************************************************************)
STACK_NAME == "OramaStack"
directiveName == "oramaSearchable"

\* directive-args is imported by the transformer but is not among the sources;
\* the two tables are taken from the specification (sections 3 and 4.3).
VALID_SCHEMA_TYPES == {"string", "number", "boolean"}

Undefined == "<undefined>"

GRAPHQL_TYPES_TO_VALID_TYPES(type) ==
    CASE type = "String" -> "string"
      [] type = "Int" -> "number"
      [] type = "Float" -> "number"
      [] type = "Boolean" -> "boolean"
      [] OTHER -> Undefined

(***************************************************************************)
(* GraphQL AST values.                                                     *)
(***************************************************************************)
Named(n) == [kind |-> "NamedType", name |-> n]
NonNull(t) == [kind |-> "NonNullType", type |-> t]
ListOf(t) == [kind |-> "ListType", type |-> t]

Field(n, t) == [name |-> n, type |-> t]

ObjectType(n, dirs, fs) ==
    [kind |-> "ObjectTypeDefinition", name |-> n, directives |-> dirs,
     fields |-> fs, values |-> <<>>]

EnumType(n, vs) ==
    [kind |-> "EnumTypeDefinition", name |-> n, directives |-> <<>>,
     fields |-> <<>>, values |-> vs]

\* A raw field-shape value as decoded from the directive argument: its
\* JavaScript typeof and, for a string, the string itself.
Str(s) == [type |-> "string", value |-> s]
NumberLiteral == [type |-> "number", value |-> "1"]
BooleanLiteral == [type |-> "boolean", value |-> "true"]
ObjectLiteral == [type |-> "object", value |-> "[object Object]"]

Entry(k, v) == [key |-> k, value |-> v]

Directive(n, args) == [name |-> n, arguments |-> args]

(***************************************************************************)
(* Generic sequence helpers.                                               *)
(***************************************************************************)
Range(s) == {s[i] : i \in DOMAIN s}

\* Array.prototype.indexOf, 0-based, -1 when absent.
IndexOf(s, x) ==
    IF \E i \in DOMAIN s : s[i] = x
    THEN (CHOOSE i \in DOMAIN s : s[i] = x /\ \A j \in 1..(i - 1) : s[j] # x) - 1
    ELSE -1

\* Array.prototype.find over declarations by name: the first match, or 0.
FindByName(defs, n) ==
    IF \E i \in DOMAIN defs : defs[i].name = n
    THEN CHOOSE i \in DOMAIN defs :
            defs[i].name = n /\ \A j \in 1..(i - 1) : defs[j].name # n
    ELSE 0

\* obj[k] = v on an insertion-ordered mapping held as a sequence of entries.
SetKey(m, k, v) ==
    IF \E i \in DOMAIN m : m[i].key = k
    THEN [i \in DOMAIN m |-> IF m[i].key = k THEN Entry(k, v) ELSE m[i]]
    ELSE Append(m, Entry(k, v))

HasKey(m, k) == \E i \in DOMAIN m : m[i].key = k

GetKey(m, k) == m[CHOOSE i \in DOMAIN m : m[i].key = k].value

(***************************************************************************)
(* Errors: every failure is an InvalidDirectiveError; kind names the        *)
(* message, name its subject.                                              *)
(***************************************************************************)
NoError == [kind |-> "none", name |-> "", entity |-> ""]
Err(k, n, e) == [kind |-> k, name |-> n, entity |-> e]

(***************************************************************************)
(* Resolved schemas: a primitive marker or a nested mapping.                *)
(***************************************************************************)
UndefinedSchema == [tag |-> "undefined", leaf |-> "", entries |-> <<>>]
Primitive(p) == [tag |-> "primitive", leaf |-> p, entries |-> <<>>]
SchemaOf(es) == [tag |-> "schema", leaf |-> "", entries |-> es]
Thrown(n) == [tag |-> "error", leaf |-> n, entries |-> <<>>]

(***************************************************************************)
(* Pure helpers of the transformer.                                        *)
(***************************************************************************)
getValidSchemaType(type) == GRAPHQL_TYPES_TO_VALID_TYPES(type)

RECURSIVE InnermostNamed(_)
InnermostNamed(node) ==
    IF node.kind # "NamedType" THEN InnermostNamed(node.type) ELSE node

\* Mutant: a field type without a primitive marker is taken for a string
\* instead of being left for the worklist.
getCorrectTypeLenient(node) ==
    LET type == InnermostNamed(node).name
    IN [validType |-> IF getValidSchemaType(type) = Undefined
                      THEN "string"
                      ELSE getValidSchemaType(type),
        type |-> type]

getCorrectType(node) ==
    LET type == InnermostNamed(node).name
    IN [validType |-> getValidSchemaType(type), type |-> type]

\* Mutant: the searchable directive may stand anywhere after the model
\* directive.
validateModelDirectiveAnywhereAfter(definition) ==
    LET values == [i \in DOMAIN definition.directives |->
                      definition.directives[i].name]
        modelIndex == IndexOf(values, "model")
        oramaSearchableIndex == IndexOf(values, directiveName)
    IN IF "model" \notin Range(values)
       THEN Err("DirectiveUsageError", "model", definition.name)
       ELSE IF modelIndex + 1 > oramaSearchableIndex
            THEN Err("DirectiveUsageError", "position", definition.name)
            ELSE NoError

\* NoError, or the error validateModelDirective throws.
validateModelDirective(definition) ==
    LET values == [i \in DOMAIN definition.directives |->
                      definition.directives[i].name]
        modelIndex == IndexOf(values, "model")
        oramaSearchableIndex == IndexOf(values, directiveName)
    IN IF "model" \notin Range(values)
       THEN Err("DirectiveUsageError", "model", definition.name)
       ELSE IF modelIndex + 1 # oramaSearchableIndex
            THEN Err("DirectiveUsageError", "position", definition.name)
            ELSE NoError

\* DirectiveWrapper.getArguments with the default { schema: {} }.
getDirectiveArguments(directive) ==
    [schema |-> IF HasKey(directive.arguments, "schema")
                THEN GetKey(directive.arguments, "schema")
                ELSE <<>>]

\* Mutant: the error names the last key that is no field.
validateSchemaFieldsLast(schema, definition) ==
    LET names == {definition.fields[i].name : i \in DOMAIN definition.fields}
        bad == {i \in DOMAIN schema : schema[i].key \notin names}
    IN IF bad = {}
       THEN NoError
       ELSE LET last == CHOOSE i \in bad : \A j \in bad : i >= j
            IN Err("FieldNotFoundError", schema[last].key, definition.name)

\* NoError, or the error thrown for the first key that is no field.
validateSchemaFields(schema, definition) ==
    LET names == {definition.fields[i].name : i \in DOMAIN definition.fields}
        bad == {i \in DOMAIN schema : schema[i].key \notin names}
    IN IF bad = {}
       THEN NoError
       ELSE LET first == CHOOSE i \in bad : \A j \in bad : i <= j
            IN Err("FieldNotFoundError", schema[first].key, definition.name)

\* Mutant: the kinds are not checked up front; a value that is no string is
\* entered under its typeof and the primitive markers are dropped.
getNonValidSchemaTypeUnchecked(directiveArguments) ==
    LET schema == directiveArguments.schema
        mapped == [i \in DOMAIN schema |->
                      IF schema[i].value.type = "string"
                      THEN schema[i].value.value
                      ELSE schema[i].value.type]
    IN [error |-> NoError,
        types |-> SelectSeq(mapped, LAMBDA v : v \notin VALID_SCHEMA_TYPES)]

\* The map step throws on the first value that is neither a string nor an
\* object; only then does the filter drop the primitive markers.
getNonValidSchemaType(directiveArguments) ==
    LET schema == directiveArguments.schema
        illegal == {i \in DOMAIN schema :
                       schema[i].value.type \notin {"string", "object"}}
        mapped == [i \in DOMAIN schema |->
                      IF schema[i].value.type = "string"
                      THEN schema[i].value.value
                      ELSE schema[i].value.type]
    IN IF illegal # {}
       THEN LET first == CHOOSE i \in illegal : \A j \in illegal : i <= j
            IN [error |-> Err("UnsupportedSchemaTypeError",
                              schema[first].value.type, ""),
                types |-> <<>>]
       ELSE [error |-> NoError,
             types |-> SelectSeq(mapped, LAMBDA v : v \notin VALID_SCHEMA_TYPES)]

\* visitedTypes is a Map: a sequence of entries whose value is either the
\* field map of an object type or the member names of an enum.
ObjectShape(tmp) == [isArray |-> FALSE, fields |-> tmp, values |-> <<>>]
EnumShape(vs) == [isArray |-> TRUE, fields |-> <<>>, values |-> vs]

\* Mutant: the field map of an object type is returned as stored, its
\* values not expanded.
getSchemaEntriesShallow(entries, visited, acc) ==
    SchemaOf([i \in DOMAIN entries |->
                 Entry(entries[i].key, Primitive(entries[i].value))])

RECURSIVE getSchema(_, _)
RECURSIVE getSchemaEntries(_, _, _)

getSchema(schemaType, visited) ==
    IF schemaType \in VALID_SCHEMA_TYPES
    THEN Primitive(schemaType)
    ELSE IF ~HasKey(visited, schemaType)
         THEN Thrown(schemaType)
         ELSE LET value == GetKey(visited, schemaType)
              IN IF value.isArray
                 THEN Primitive("string")
                 ELSE getSchemaEntries(value.fields, visited, <<>>)

\* The loop over Object.entries(value): the first throw ends it.
getSchemaEntries(entries, visited, acc) ==
    IF entries = <<>>
    THEN SchemaOf(acc)
    ELSE LET r == getSchema(Head(entries).value, visited)
         IN IF r.tag = "error"
            THEN r
            ELSE getSchemaEntries(Tail(entries), visited,
                                  SetKey(acc, Head(entries).key, r))

\* Mutant: an object-shaped literal is taken for an inline mapping and
\* expanded in place.
RECURSIVE completeSchemaInline(_, _, _)
completeSchemaInline(entries, visited, acc) ==
    IF entries = <<>>
    THEN SchemaOf(acc)
    ELSE LET v == Head(entries).value
             r == IF v.type = "string"
                  THEN getSchema(v.value, visited)
                  ELSE SchemaOf(<<>>)
         IN IF r.tag = "error"
            THEN r
            ELSE completeSchemaInline(Tail(entries), visited,
                                      SetKey(acc, Head(entries).key, r))

\* Lines 231-234: the raw shape values are the arguments of getSchema; an
\* object literal is never a primitive marker nor a key of the Map.
RECURSIVE completeSchema(_, _, _)
completeSchema(entries, visited, acc) ==
    IF entries = <<>>
    THEN SchemaOf(acc)
    ELSE LET v == Head(entries).value
             r == IF v.type = "string"
                  THEN getSchema(v.value, visited)
                  ELSE Thrown(v.value)
         IN IF r.tag = "error"
            THEN r
            ELSE completeSchema(Tail(entries), visited,
                                SetKey(acc, Head(entries).key, r))

customObjectTypes(document) ==
    SelectSeq(document, LAMBDA d : d.kind = "ObjectTypeDefinition")

customEnumTypes(document) ==
    SelectSeq(document, LAMBDA d : d.kind = "EnumTypeDefinition")

\* Lines 211-217: the non-primitive field types, and the field map.
RECURSIVE expandFields(_, _, _)
expandFields(fs, fields, tmp) ==
    IF fs = <<>>
    THEN [fields |-> fields, tmp |-> tmp]
    ELSE LET ct == getCorrectType(Head(fs).type)
         IN expandFields(
                Tail(fs),
                IF ct.validType = Undefined THEN Append(fields, ct.type) ELSE fields,
                SetKey(tmp, Head(fs).name,
                       IF ct.validType = Undefined THEN ct.type ELSE ct.validType))

\* Mutant: the Map is never consulted before a name is looked up.
visitedTypesHasNever(visited, type) == FALSE

\* Line 204.
visitedTypesHas(visited, type) == HasKey(visited, type)

\* Mutant: the error names the type stored last in the Map.
circularReferenceLastStored(notFoundType, visited) ==
    Err("CircularReferenceError", visited[Len(visited)].key, "")

\* Line 205: the error names the type just shifted off the worklist.
circularReference(notFoundType, visited) ==
    Err("CircularReferenceError", notFoundType, "")

\* Line 224.
notFoundInSchema(notFoundType) == Err("UnknownSchemaTypeError", notFoundType, "")

\* Lines 200-228: one iteration of the worklist loop on a worklist, a Map
\* and a document; error is NoError unless the iteration throws.
worklistStep(queue, visited, document) ==
    LET notFoundType == Head(queue)
        rest == Tail(queue)
        objects == customObjectTypes(document)
        enums == customEnumTypes(document)
        correctObject == FindByName(objects, notFoundType)
        correctEnum == FindByName(enums, notFoundType)
    IN IF visitedTypesHas(visited, notFoundType)
       THEN [error |-> circularReference(notFoundType, visited),
             visited |-> visited, queue |-> rest]
       ELSE IF correctObject # 0
       THEN LET e == expandFields(objects[correctObject].fields, <<>>, <<>>)
            IN [error |-> NoError,
                visited |-> SetKey(visited, notFoundType, ObjectShape(e.tmp)),
                queue |-> rest \o e.fields]
       ELSE IF correctEnum = 0
       THEN [error |-> notFoundInSchema(notFoundType),
             visited |-> visited, queue |-> rest]
       ELSE [error |-> NoError,
             visited |-> SetKey(visited, notFoundType,
                                EnumShape(enums[correctEnum].values)),
             queue |-> rest]

\* Lines 199-229: the whole worklist loop.
RECURSIVE drainWorklist(_, _, _)
drainWorklist(queue, visited, document) ==
    IF Len(queue) = 0
    THEN [error |-> NoError, visited |-> visited]
    ELSE LET r == worklistStep(queue, visited, document)
         IN IF r.error # NoError
            THEN [error |-> r.error, visited |-> r.visited]
            ELSE drainWorklist(r.queue, r.visited, document)

\* Lines 197-236: the body of the loop over the entities, for one entity and
\* a given Map: the error it throws or the schema it attaches.
resolveEntity(directiveArguments, visited, document) ==
    LET g == getNonValidSchemaType(directiveArguments)
        d == drainWorklist(g.types, visited, document)
        c == completeSchema(directiveArguments.schema, d.visited, <<>>)
    IN IF g.error # NoError
       THEN [error |-> g.error, schema |-> UndefinedSchema]
       ELSE IF d.error # NoError
       THEN [error |-> d.error, schema |-> UndefinedSchema]
       ELSE IF c.tag = "error"
       THEN [error |-> Err("UnsupportedSchemaTypeError", c.leaf, ""),
             schema |-> UndefinedSchema]
       ELSE [error |-> NoError, schema |-> c]

\* graphqlName(`search${plurality(toUpper(name), true)}`), kept symbolic.
searchFieldName(entity) == <<"search", entity, "s">>

(***************************************************************************)
(* The documents handed to the transformer.                                *)
(***************************************************************************)
DirectiveNames == {"model", directiveName, "auth"}

\* Directive lists of an annotated type: the searchable directive once,
\* anywhere among up to MaxDirectives directives.
DirectiveNameLists ==
    UNION {{l \in [1..n -> DirectiveNames] :
               Cardinality({i \in 1..n : l[i] = directiveName}) = 1}
           : n \in 1..MaxDirectives}

WithArguments(names, args) ==
    [i \in DOMAIN names |->
        Directive(names[i], IF names[i] = directiveName THEN args ELSE <<>>)]

SchemaArgument(shape) == <<Entry("schema", shape)>>

\* The fields of an annotated type use scalars only, so that every document
\* without a repeated declaration is a valid GraphQL document.
EntityFields == <<Field("id", NonNull(Named("ID"))), Field("pic", Named("String"))>>

Entity(name, names, args) == ObjectType(name, WithArguments(names, args), EntityFields)

ShapeKeys == {"id", "pic", "yy", "zz"}
ShapeValues == {Str("string"), Str("A"), NumberLiteral, BooleanLiteral, ObjectLiteral}
PairShapeValues == {Str("string"), Str("A"), NumberLiteral, ObjectLiteral}

\* The field-shape mappings with at most n entries over the given keys and
\* values (an object literal has no repeated key).
ShapesOver(keys, values, n) ==
    UNION {{s \in [1..k -> {Entry(key, v) : key \in keys, v \in values}] :
               \A i, j \in 1..k : i # j => s[i].key # s[j].key}
           : k \in 0..n}

LibEmpty == <<>>

LibSimple == <<ObjectType("A", <<>>, <<Field("s", Named("String")),
                                      Field("n", Named("Int"))>>)>>

LibChain ==
    <<ObjectType("A", <<>>, <<Field("x", NonNull(Named("String"))),
                              Field("e", NonNull(Named("E"))),
                              Field("b", Named("B"))>>),
      EnumType("E", <<"private", "public">>),
      ObjectType("B", <<>>, <<Field("n", Named("Int")),
                              Field("f", Named("Float")),
                              Field("ok", NonNull(ListOf(NonNull(Named("Boolean")))))>>)>>

LibCycle ==
    <<ObjectType("A", <<>>, <<Field("b", Named("B"))>>),
      ObjectType("B", <<>>, <<Field("a", NonNull(ListOf(NonNull(Named("A")))))>>)>>

LibCycleUnknown ==
    <<ObjectType("A", <<>>, <<Field("b", Named("B")),
                              Field("id", NonNull(Named("ID")))>>),
      ObjectType("B", <<>>, <<Field("a", Named("A"))>>)>>

LibDuplicate ==
    <<ObjectType("A", <<>>, <<Field("bucket", NonNull(Named("String")))>>),
      ObjectType("A", <<>>, <<Field("region", NonNull(Named("Int")))>>)>>

LibDiamond ==
    <<ObjectType("A", <<>>, <<Field("b", Named("B")), Field("c", Named("C"))>>),
      ObjectType("B", <<>>, <<Field("e", Named("E"))>>),
      ObjectType("C", <<>>, <<Field("e", Named("E"))>>),
      EnumType("E", <<"private", "public">>)>>

LibObjectName ==
    <<ObjectType("object", <<>>, <<Field("x", Named("Boolean"))>>),
      EnumType("A", <<"private", "public">>)>>

Libraries == {LibEmpty, LibSimple, LibChain, LibCycle, LibCycleUnknown,
              LibDuplicate, LibDiamond, LibObjectName}

Placed == <<"model", directiveName>>

\* One annotated type under every directive list.
PlacementDocuments ==
    {<<Entity("Post", names, args)>> \o LibSimple :
        names \in DirectiveNameLists,
        args \in {<<>>, SchemaArgument(<<Entry("zz", Str("string"))>>)}}

\* One well-placed annotated type under every field-shape mapping.
ShapeDocuments ==
    {<<Entity("Post", Placed, SchemaArgument(shape))>> \o lib :
        shape \in ShapesOver(ShapeKeys, ShapeValues, MaxShapeLen), lib \in Libraries}

\* Two annotated types.
PairDocuments ==
    {<<Entity("Post", Placed, SchemaArgument(s1)),
       Entity("User", Placed, SchemaArgument(s2))>> \o lib :
        s1 \in ShapesOver({"id", "pic"}, PairShapeValues, MaxShapeLen),
        s2 \in ShapesOver({"id", "pic"}, PairShapeValues, MaxShapeLen),
        lib \in Libraries}

Documents == PlacementDocuments \cup ShapeDocuments \cup PairDocuments

\* The documents of a later transform on the same transformer object.
RetransformDocuments ==
    {<<Entity("User", Placed, SchemaArgument(<<Entry("pic", Str("A"))>>))>> \o lib :
        lib \in {LibSimple, LibEmpty}}

(***************************************************************************)
(* State.                                                                  *)
(***************************************************************************)
VARIABLES
    searchableObjectTypeDefinitions, \* the transformer's list of entities
    stasck,                \* the transformer's cached stack
    inputDocument,         \* the document of the current transform
    cursor,                \* next declaration the host visits
    pc,                    \* position in the pipeline / in validate
    visitedTypes,          \* validate's Map (local of one validate call)
    notFoundSchemaTypes,   \* validate's worklist
    index,                 \* validate's loop index (0-based)
    error,                 \* the error thrown out of the run, if any
    queryFields,           \* fields added to the Query type in this run
    deployments,           \* createDBOnS3 calls of this run
    runs,                  \* transforms started on this object
    popped                 \* history: the names shifted off the worklist
                           \* since validate was entered

vars == <<searchableObjectTypeDefinitions, stasck, inputDocument, cursor, pc,
          visitedTypes, notFoundSchemaTypes, index, error, queryFields,
          deployments, runs, popped>>

\* The state after the constructor.
Init ==
    /\ searchableObjectTypeDefinitions = <<>>
    /\ stasck = Undefined
    /\ inputDocument = <<>>
    /\ cursor = 1
    /\ pc = "idle"
    /\ visitedTypes = <<>>
    /\ notFoundSchemaTypes = <<>>
    /\ index = 0
    /\ error = NoError
    /\ queryFields = <<>>
    /\ deployments = <<>>
    /\ runs = 0
    /\ popped = <<>>

IsAnnotated(d) ==
    /\ d.kind = "ObjectTypeDefinition"
    /\ \E i \in DOMAIN d.directives : d.directives[i].name = directiveName

\* Position of the first annotated declaration at or after from, or 0.
NextAnnotated(document, from) ==
    LET later == {i \in DOMAIN document : i >= from /\ IsAnnotated(document[i])}
    IN IF later = {} THEN 0 ELSE CHOOSE i \in later : \A j \in later : i <= j

\* An error thrown by a phase ends the run.
Throw(e) ==
    /\ pc' = "failed"
    /\ error' = e

(***************************************************************************)
(* The host starts a transform of a document on this transformer object.   *)
(* The context of the run (document, output, stack resources) is new; the  *)
(* transformer's own fields are whatever the previous run left.            *)
(***************************************************************************)
Transform(document) ==
    /\ pc \in {"idle", "done", "failed"}
    /\ runs < MaxRuns
    /\ inputDocument' = document
    /\ cursor' = 1
    /\ pc' = "visit"
    /\ visitedTypes' = <<>>
    /\ notFoundSchemaTypes' = <<>>
    /\ index' = 0
    /\ error' = NoError
    /\ queryFields' = <<>>
    /\ deployments' = <<>>
    /\ runs' = runs + 1
    /\ popped' = <<>>
    /\ UNCHANGED <<searchableObjectTypeDefinitions, stasck>>

(***************************************************************************)
(* object(definition, directive): the visit of the next annotated type.    *)
(***************************************************************************)
object ==
    /\ pc = "visit"
    /\ NextAnnotated(inputDocument, cursor) # 0
    /\ LET pos == NextAnnotated(inputDocument, cursor)
           definition == inputDocument[pos]
           directive ==
               definition.directives[
                   CHOOSE i \in DOMAIN definition.directives :
                       /\ definition.directives[i].name = directiveName
                       /\ \A j \in 1..(i - 1) :
                              definition.directives[j].name # directiveName]
           placement == validateModelDirective(definition)
           directiveArguments == getDirectiveArguments(directive)
           fieldsOk == validateSchemaFields(directiveArguments.schema, definition)
       IN IF placement # NoError
          THEN /\ Throw(placement)
               /\ UNCHANGED <<searchableObjectTypeDefinitions, cursor>>
          ELSE IF fieldsOk # NoError
          THEN /\ Throw(fieldsOk)
               /\ UNCHANGED <<searchableObjectTypeDefinitions, cursor>>
          ELSE /\ searchableObjectTypeDefinitions' =
                      Append(searchableObjectTypeDefinitions,
                             [node |-> definition,
                              fieldName |-> searchFieldName(definition.name),
                              entity |-> definition.name,
                              directiveArguments |-> directiveArguments,
                              schema |-> UndefinedSchema])
               /\ cursor' = pos + 1
               /\ UNCHANGED <<pc, error>>
    /\ UNCHANGED <<stasck, inputDocument, visitedTypes, notFoundSchemaTypes,
                   index, queryFields, deployments, runs, popped>>

(***************************************************************************)
(* transformSchema(context): one query field per entity of the list; the   *)
(* host calls it once every annotated type has been visited.               *)
(***************************************************************************)
transformSchema ==
    /\ pc = "visit"
    /\ NextAnnotated(inputDocument, cursor) = 0
    /\ queryFields' =
           [i \in DOMAIN searchableObjectTypeDefinitions |->
               [name |-> searchableObjectTypeDefinitions[i].fieldName,
                args |-> <<Field("term", Named("String")),
                           Field("limit", Named("Int"))>>,
                type |-> NonNull(ListOf(Named(
                             searchableObjectTypeDefinitions[i].entity)))]]
    /\ pc' = "validate"
    /\ UNCHANGED <<searchableObjectTypeDefinitions, stasck, inputDocument, cursor,
                   visitedTypes, notFoundSchemaTypes, index, error, deployments,
                   runs, popped>>

(***************************************************************************)
(* validate(context), lines 183-195: the registry is read off the          *)
(* document, the Map is created once, the loop index starts at 0.          *)
(***************************************************************************)
validate ==
    /\ pc = "validate"
    /\ visitedTypes' = <<>>
    /\ index' = 0
    /\ notFoundSchemaTypes' = <<>>
    /\ pc' = "resolve"
    /\ popped' = <<>>
    /\ UNCHANGED <<searchableObjectTypeDefinitions, stasck, inputDocument, cursor,
                   error, queryFields, deployments, runs>>

(***************************************************************************)
(* validate, lines 196-197: the head of the loop over the entities.        *)
(***************************************************************************)
validateEntity ==
    /\ pc = "resolve"
    /\ IF index >= Len(searchableObjectTypeDefinitions)
       THEN /\ pc' = "generate"
            /\ UNCHANGED <<notFoundSchemaTypes, error>>
       ELSE LET r == getNonValidSchemaType(
                        searchableObjectTypeDefinitions[index + 1].directiveArguments)
            IN IF r.error # NoError
               THEN /\ Throw(r.error)
                    /\ UNCHANGED notFoundSchemaTypes
               ELSE /\ notFoundSchemaTypes' = r.types
                    /\ pc' = "worklist"
                    /\ UNCHANGED error
    /\ UNCHANGED <<searchableObjectTypeDefinitions, stasck, inputDocument, cursor,
                   visitedTypes, index, queryFields, deployments, runs, popped>>

(***************************************************************************)
(* validate, lines 199-229: one iteration of the worklist loop.            *)
(***************************************************************************)
validateWorklist ==
    /\ pc = "worklist"
    /\ Len(notFoundSchemaTypes) > 0
    /\ LET r == worklistStep(notFoundSchemaTypes, visitedTypes, inputDocument)
       IN /\ visitedTypes' = r.visited
          /\ notFoundSchemaTypes' = r.queue
          /\ IF r.error # NoError
             THEN Throw(r.error)
             ELSE UNCHANGED <<pc, error>>
    /\ popped' = Append(popped, Head(notFoundSchemaTypes))
    /\ UNCHANGED <<searchableObjectTypeDefinitions, stasck, inputDocument, cursor,
                   index, queryFields, deployments, runs>>

(***************************************************************************)
(* validate, lines 230-237: the worklist is empty; the schema of the       *)
(* entity is expanded from the Map and attached.                           *)
(***************************************************************************)
validateComplete ==
    /\ pc = "worklist"
    /\ Len(notFoundSchemaTypes) = 0
    /\ LET schema ==
               completeSchema(
                   searchableObjectTypeDefinitions[index + 1].directiveArguments.schema,
                   visitedTypes, <<>>)
       IN IF schema.tag = "error"
          THEN /\ Throw(Err("UnsupportedSchemaTypeError", schema.leaf, ""))
               /\ UNCHANGED <<searchableObjectTypeDefinitions, index>>
          ELSE /\ searchableObjectTypeDefinitions' =
                      [searchableObjectTypeDefinitions EXCEPT ![index + 1].schema = schema]
               /\ index' = index + 1
               /\ pc' = "resolve"
               /\ UNCHANGED error
    /\ UNCHANGED <<stasck, inputDocument, cursor, visitedTypes, notFoundSchemaTypes,
                   queryFields, deployments, runs, popped>>

(***************************************************************************)
(* generateResolvers(context).  What the host answers for an entity (its   *)
(* table, the table's stream, the Query type) is an input: the loop stops  *)
(* at entity failAt (0: nowhere) for the reason how.                       *)
(***************************************************************************)
HostFailures == {"noTable", "noStreamArn", "noQueryType"}

\* createDBOnS3(stack, bucket, definition.fieldName, definition.schema)
createDBOnS3(definition) ==
    [entity |-> definition.fieldName, schema |-> definition.schema]

\* Lines 99-101.
deploysIndex(definition) == definition.schema # UndefinedSchema

RECURSIVE generateLoop(_, _, _, _)
generateLoop(definitions, i, failAt, how) ==
    IF i > Len(definitions) \/ (i = failAt /\ how = "noTable")
    THEN <<>>
    ELSE (IF deploysIndex(definitions[i])
          THEN <<createDBOnS3(definitions[i])>>
          ELSE <<>>)
         \o (IF i = failAt THEN <<>> ELSE generateLoop(definitions, i + 1, failAt, how))

generateResolvers ==
    /\ pc = "generate"
    /\ stasck' = IF stasck = Undefined THEN STACK_NAME ELSE stasck
    /\ \E failAt \in 0..Len(searchableObjectTypeDefinitions), how \in HostFailures :
          /\ failAt = 0 => how = "noTable"
          /\ deployments' = generateLoop(searchableObjectTypeDefinitions, 1, failAt, how)
          /\ IF failAt = 0
             THEN pc' = "done" /\ UNCHANGED error
             ELSE Throw(Err("Error", how,
                            searchableObjectTypeDefinitions[failAt].entity))
    /\ UNCHANGED <<searchableObjectTypeDefinitions, inputDocument, cursor,
                   visitedTypes, notFoundSchemaTypes, index, queryFields, runs,
                   popped>>

Next ==
    \/ \E document \in (IF runs = 0 THEN Documents ELSE RetransformDocuments) :
          Transform(document)
    \/ object
    \/ transformSchema
    \/ validate
    \/ validateEntity
    \/ validateWorklist
    \/ validateComplete
    \/ generateResolvers

Spec == Init /\ [][Next]_vars

(***************************************************************************)
(* Vocabulary of the properties.                                           *)
(***************************************************************************)
ResolutionErrors ==
    {"UnsupportedSchemaTypeError", "UnknownSchemaTypeError", "CircularReferenceError"}

VisitErrors == {"DirectiveUsageError", "FieldNotFoundError"}

\* The run has failed inside validate, while resolving the entity at index.
ResolutionFailed == pc = "failed" /\ error.kind \in ResolutionErrors

\* The entity validate was resolving when it threw.
FailedEntity == searchableObjectTypeDefinitions[index + 1]

\* validate has just attached a schema to the entity before index.
JustAttached == pc = "resolve" /\ index >= 1

AttachedEntity == searchableObjectTypeDefinitions[index]

ShapeOf(definition) == definition.directiveArguments.schema

\* The type names a mapping refers to by a string value.
ShapeRoots(shape) ==
    {shape[i].value.value : i \in {j \in DOMAIN shape :
        /\ shape[j].value.type = "string"
        /\ shape[j].value.value \notin VALID_SCHEMA_TYPES}}

IsObjectType(document, n) == FindByName(customObjectTypes(document), n) # 0
IsEnumType(document, n) == FindByName(customEnumTypes(document), n) # 0
IsDeclared(document, n) == IsObjectType(document, n) \/ IsEnumType(document, n)

\* The GraphQL scalars with a primitive marker (specification, section 4.3).
MappedScalars == {"String", "Int", "Float", "Boolean"}

\* The type names the fields of object type n refer to (none for an enum or
\* an undeclared name).
TypeRefs(document, n) ==
    IF ~IsObjectType(document, n)
    THEN {}
    ELSE LET fs == customObjectTypes(document)[
                       FindByName(customObjectTypes(document), n)].fields
         IN {InnermostNamed(fs[i].type).name : i \in DOMAIN fs} \ MappedScalars

RECURSIVE ReachableFrom(_, _, _)
ReachableFrom(document, frontier, seen) ==
    IF frontier \subseteq seen
    THEN seen
    ELSE ReachableFrom(document,
                       UNION {TypeRefs(document, n) : n \in frontier \ seen},
                       seen \cup frontier)

\* Every type name reachable from the mapping through nested fields.
ReachableTypes(shape, document) == ReachableFrom(document, ShapeRoots(shape), {})

\* n is reachable from itself through nested field type references.
OnCycle(document, n) == n \in ReachableFrom(document, TypeRefs(document, n), {})

NoRepeats(seq) == \A i, j \in DOMAIN seq : i # j => seq[i] # seq[j]

IsNonEmptySchema(schema) == schema.tag = "schema" /\ schema.entries # <<>>

NumberOfDeclarations(document, n) ==
    Cardinality({i \in DOMAIN document :
        document[i].kind = "ObjectTypeDefinition" /\ document[i].name = n})

\* Annotated declarations the host has passed to object() in this run.
VisitedInThisRun ==
    Cardinality({i \in DOMAIN inputDocument :
        i < cursor /\ IsAnnotated(inputDocument[i])})

(***************************************************************************)
(* C1: the outcome of an entity's resolution (the schema attached, or the  *)
(* error thrown) is the outcome of resolving it from an empty TypeIndex,   *)
(* whatever entities were resolved before it in the same validation.       *)
(* Refuted: the Map is created once per validate call, so the second of    *)
(* two entities that reference the same acyclic type fails.                *)
(***************************************************************************)
C1_OutcomeIndependentOfEarlierEntities ==
    /\ ResolutionFailed =>
          resolveEntity(FailedEntity.directiveArguments, <<>>, inputDocument).error
              = error
    /\ JustAttached =>
          resolveEntity(AttachedEntity.directiveArguments, <<>>, inputDocument).schema
              = AttachedEntity.schema

(***************************************************************************)
(* C2: a CircularReferenceError names a type that is reachable from itself *)
(* through nested field type references.                                   *)
(* Refuted: a type reached twice without any cycle raises it too.          *)
(***************************************************************************)
C2_CircularOnlyOnCycle ==
    (pc = "failed" /\ error.kind = "CircularReferenceError")
        => OnCycle(inputDocument, error.name)

(***************************************************************************)
(* C3: a transform processes only the entities visited in that transform:  *)
(* the list holds exactly one record per annotated type visited so far in  *)
(* the current run.                                                        *)
(* Refuted: the list is only emptied by the constructor.                   *)
(***************************************************************************)
C3_RunStartsWithEmptyList ==
    pc # "idle" => Len(searchableObjectTypeDefinitions) = VisitedInThisRun

(***************************************************************************)
(* C4: when resource generation completes, createDBOnS3 has been called    *)
(* exactly for the entities whose schema is non-empty, in list order.      *)
(* Refuted: an entity whose schema is the empty mapping is deployed too.   *)
(***************************************************************************)
C4_DeploysExactlyNonEmptySchemas ==
    pc = "done" =>
        deployments =
            LET chosen == SelectSeq(searchableObjectTypeDefinitions,
                                    LAMBDA d : IsNonEmptySchema(d.schema))
            IN [i \in DOMAIN chosen |-> createDBOnS3(chosen[i])]

(***************************************************************************)
(* C5: no schema is attached in a run to an entity whose mapping names a   *)
(* type that the document declares twice as an object type.                *)
(* validate() on its own does not ensure it: find() takes the first       *)
(* declaration.  Such a document is turned down by the pipeline's own      *)
(* document validation (test, lines 25-50), which is not part of src.      *)
(***************************************************************************)
C5_DuplicateTypeNeverResolved ==
    \A i \in 1..index :
        \A n \in ShapeRoots(ShapeOf(searchableObjectTypeDefinitions[i])) :
            NumberOfDeclarations(inputDocument, n) < 2

(***************************************************************************)
(* More vocabulary.                                                        *)
(***************************************************************************)
\* The undeclared type names a mapping reaches.
UndeclaredTypes(shape, document) ==
    {n \in ReachableTypes(shape, document) : ~IsDeclared(document, n)}

\* Some type the mapping reaches lies on a cycle of field type references.
HasCycle(shape, document) ==
    \E n \in ReachableTypes(shape, document) : OnCycle(document, n)

IllegalKinds(shape) ==
    {i \in DOMAIN shape : shape[i].value.type \notin {"string", "object"}}

HasIllegalKind(shape) == IllegalKinds(shape) # {}

FirstIllegalKind(shape) ==
    shape[CHOOSE i \in IllegalKinds(shape) : \A j \in IllegalKinds(shape) : i <= j]
        .value.type

\* What the worklist of a mapping can ever hold: the names it reaches, an
\* object-shaped literal standing as the name "object".
PendingTypes(shape, document) ==
    ReachableFrom(document,
                  ShapeRoots(shape) \cup
                      (IF \E i \in DOMAIN shape : shape[i].value.type = "object"
                       THEN {"object"} ELSE {}),
                  {})

Front(seq) == SubSeq(seq, 1, Len(seq) - 1)

\* The last name shifted off the worklist is the first one shifted off twice.
FirstReencountered(name) ==
    /\ popped # <<>>
    /\ name = popped[Len(popped)]
    /\ name \in Range(Front(popped))
    /\ NoRepeats(Front(popped))

\* The error was thrown before any name came off the worklist twice: the
\* kind gate, or an undeclared name that has just been shifted off.
ThrownBeforeReencounter ==
    /\ NoRepeats(popped)
    /\ \/ /\ error.kind = "UnsupportedSchemaTypeError"
          /\ HasIllegalKind(ShapeOf(FailedEntity))
          /\ error.name = FirstIllegalKind(ShapeOf(FailedEntity))
       \/ /\ error.kind = "UnknownSchemaTypeError"
          /\ popped # <<>>
          /\ error.name = popped[Len(popped)]
          /\ ~IsDeclared(inputDocument, error.name)
          /\ \A i \in 1..(Len(popped) - 1) : IsDeclared(inputDocument, popped[i])

(***************************************************************************)
(* C6 as stated: whenever the mapping of the entity being resolved reaches *)
(* an undeclared type name, resolution fails with UnknownSchemaTypeError   *)
(* naming such a type.                                                     *)
(* Refuted: an illegal value kind, or a name shifted off twice, is         *)
(* reported first.                                                         *)
(***************************************************************************)
C6_UnknownTypeAlwaysReported ==
    /\ JustAttached => UndeclaredTypes(ShapeOf(AttachedEntity), inputDocument) = {}
    /\ (ResolutionFailed /\
          UndeclaredTypes(ShapeOf(FailedEntity), inputDocument) # {})
         => /\ error.kind = "UnknownSchemaTypeError"
            /\ error.name \in UndeclaredTypes(ShapeOf(FailedEntity), inputDocument)

(***************************************************************************)
(* C6 amended: a mapping that reaches an undeclared type name is never     *)
(* given a schema; its resolution fails with UnknownSchemaTypeError naming *)
(* the first undeclared name shifted off the worklist, unless an           *)
(* UnsupportedSchemaTypeError for the first illegal value kind or a        *)
(* CircularReferenceError for the first name shifted off twice is thrown   *)
(* before that.                                                            *)
(***************************************************************************)
C6_UnknownTypeNeverResolved ==
    /\ JustAttached => UndeclaredTypes(ShapeOf(AttachedEntity), inputDocument) = {}
    /\ (ResolutionFailed /\
          UndeclaredTypes(ShapeOf(FailedEntity), inputDocument) # {})
         => \/ /\ ThrownBeforeReencounter
               /\ error.kind = "UnknownSchemaTypeError" =>
                      error.name \in PendingTypes(ShapeOf(FailedEntity), inputDocument)
            \/ /\ error.kind = "CircularReferenceError"
               /\ FirstReencountered(error.name)

\* An undeclared scalar of a nested type is reported after two object types
\* have been expanded.
C6_Witness ==
    /\ ResolutionFailed
    /\ error = Err("UnknownSchemaTypeError", "ID", "")
    /\ popped = <<"A", "B", "ID">>
    /\ "ID" \in UndeclaredTypes(ShapeOf(FailedEntity), inputDocument)

(***************************************************************************)
(* C7 as stated: whenever the mapping of the entity being resolved reaches *)
(* a cycle of type references, resolution fails with                       *)
(* CircularReferenceError naming the first type re-encountered by the      *)
(* FIFO worklist.                                                          *)
(* Refuted: an undeclared name queued before the re-encounter, or an       *)
(* illegal value kind, is reported instead.                                *)
(***************************************************************************)
C7_CycleAlwaysCircular ==
    /\ JustAttached => ~HasCycle(ShapeOf(AttachedEntity), inputDocument)
    /\ (ResolutionFailed /\ HasCycle(ShapeOf(FailedEntity), inputDocument))
         => /\ error.kind = "CircularReferenceError"
            /\ FirstReencountered(error.name)

(***************************************************************************)
(* C7 amended: a mapping that reaches a cycle of type references is never  *)
(* given a schema; its resolution fails with CircularReferenceError naming *)
(* the first name the FIFO worklist shifts off a second time, unless an    *)
(* UnsupportedSchemaTypeError (illegal value kind) or an                   *)
(* UnknownSchemaTypeError (an undeclared name shifted off earlier) is      *)
(* thrown before any name is shifted off twice.                            *)
(***************************************************************************)
C7_CycleNeverResolved ==
    /\ JustAttached => ~HasCycle(ShapeOf(AttachedEntity), inputDocument)
    /\ (ResolutionFailed /\ HasCycle(ShapeOf(FailedEntity), inputDocument))
         => \/ /\ error.kind = "CircularReferenceError"
               /\ FirstReencountered(error.name)
            \/ ThrownBeforeReencounter

\* The cycle A -> B -> A is walked once and A is re-encountered.
C7_Witness ==
    /\ ResolutionFailed
    /\ error = Err("CircularReferenceError", "A", "")
    /\ popped = <<"A", "B", "A">>
    /\ HasCycle(ShapeOf(FailedEntity), inputDocument)

(***************************************************************************)
(* C8: an entity whose mapping holds a value that is neither a string nor  *)
(* an object-shaped literal never reaches the worklist loop: its           *)
(* resolution fails with UnsupportedSchemaTypeError naming the kind of the *)
(* first such value, with an empty worklist, and every name shifted off    *)
(* the worklist and every TypeIndex key so far comes from the mappings of  *)
(* the entities before it.                                                 *)
(***************************************************************************)
C8_IllegalKindFailsBeforeTraversal ==
    /\ pc = "worklist" =>
          ~HasIllegalKind(ShapeOf(searchableObjectTypeDefinitions[index + 1]))
    /\ (ResolutionFailed /\ HasIllegalKind(ShapeOf(FailedEntity)))
         => /\ error = Err("UnsupportedSchemaTypeError",
                           FirstIllegalKind(ShapeOf(FailedEntity)), "")
            /\ notFoundSchemaTypes = <<>>
            /\ LET earlier ==
                       UNION {PendingTypes(ShapeOf(searchableObjectTypeDefinitions[i]),
                                           inputDocument) : i \in 1..index}
               IN /\ Range(popped) \subseteq earlier
                  /\ {visitedTypes[i].key : i \in DOMAIN visitedTypes} \subseteq earlier

\* The illegal value comes second, after a reference to a declared type.
C8_Witness ==
    /\ ResolutionFailed
    /\ error = Err("UnsupportedSchemaTypeError", "number", "")
    /\ Len(ShapeOf(FailedEntity)) = 2
    /\ ShapeOf(FailedEntity)[1].value = Str("A")
    /\ ShapeOf(FailedEntity)[2].value = NumberLiteral
    /\ IsObjectType(inputDocument, "A")
    /\ popped = <<>>
    /\ visitedTypes = <<>>

(***************************************************************************)
(* C9: when resolution of an entity fails, that entity and every entity    *)
(* after it have no schema attached and nothing has been deployed.         *)
(* Refuted through C3: a record left by an earlier transform still carries *)
(* the schema of that transform.                                           *)
(***************************************************************************)
C9_FailedResolutionLeavesNoSchema ==
    ResolutionFailed =>
        /\ \A i \in (index + 1)..Len(searchableObjectTypeDefinitions) :
               searchableObjectTypeDefinitions[i].schema = UndefinedSchema
        /\ deployments = <<>>

(***************************************************************************)
(* Vocabulary of the visit.                                                *)
(***************************************************************************)
\* The run has failed inside object().
VisitFailed == pc = "failed" /\ error.kind \in VisitErrors

\* The declaration object() was given when it threw.
VisitedDefinition == inputDocument[NextAnnotated(inputDocument, cursor)]

\* The field-shape mapping written on an annotated declaration.
DeclaredShape(definition) ==
    LET ds == definition.directives
        d == ds[CHOOSE i \in DOMAIN ds :
                    ds[i].name = directiveName /\
                    \A j \in 1..(i - 1) : ds[j].name # directiveName]
    IN IF d.arguments = <<>> THEN <<>> ELSE d.arguments[1].value

OffendingKeys(definition) ==
    {i \in DOMAIN DeclaredShape(definition) :
        \A f \in DOMAIN definition.fields :
            definition.fields[f].name # DeclaredShape(definition)[i].key}

FirstOffendingKey(definition) ==
    DeclaredShape(definition)[
        CHOOSE i \in OffendingKeys(definition) :
            \A j \in OffendingKeys(definition) : i <= j].key

\* The model directive is present and the searchable directive follows it.
WellPlaced(definition) ==
    LET ds == definition.directives
    IN \E m \in DOMAIN ds :
          /\ ds[m].name = "model"
          /\ \A j \in 1..(m - 1) : ds[j].name # "model"
          /\ m + 1 \in DOMAIN ds
          /\ ds[m + 1].name = directiveName
          /\ \A j \in 1..m : ds[j].name # directiveName

\* No record of the list and no declaration the visit has passed carries a
\* key that is no field of its type, and a visit that failed on such a key
\* failed before any worklist or TypeIndex step of the run.
NoOffendingKeyGetsThrough ==
    /\ \A i \in DOMAIN searchableObjectTypeDefinitions :
          OffendingKeys(searchableObjectTypeDefinitions[i].node) = {}
    /\ \A i \in DOMAIN inputDocument :
          (i < cursor /\ IsAnnotated(inputDocument[i]))
              => OffendingKeys(inputDocument[i]) = {}
    /\ (VisitFailed /\ error.kind = "FieldNotFoundError")
          => /\ OffendingKeys(VisitedDefinition) # {}
             /\ error = Err("FieldNotFoundError",
                            FirstOffendingKey(VisitedDefinition),
                            VisitedDefinition.name)
             /\ popped = <<>>
             /\ visitedTypes = <<>>
             /\ notFoundSchemaTypes = <<>>

(***************************************************************************)
(* C10 as stated: the visit of any annotated type whose mapping has a key  *)
(* that is no field of the type fails with FieldNotFoundError naming the   *)
(* first such key and the type, no record is appended and no worklist or   *)
(* TypeIndex step has run.                                                 *)
(* Refuted: the placement check runs first, so a badly placed directive    *)
(* with such a key fails with DirectiveUsageError.                         *)
(***************************************************************************)
C10_UndeclaredKeyAlwaysFieldNotFound ==
    /\ NoOffendingKeyGetsThrough
    /\ (VisitFailed /\ OffendingKeys(VisitedDefinition) # {})
          => error.kind = "FieldNotFoundError"

(***************************************************************************)
(* C10 amended: the visit of any annotated type that passes the placement  *)
(* check and whose mapping has a key that is no field of the type fails    *)
(* with FieldNotFoundError naming the first such key and the type, in the  *)
(* visit phase: no record is appended and no worklist or TypeIndex step    *)
(* has run.                                                                *)
(***************************************************************************)
C10_UndeclaredKeyFailsVisit ==
    /\ NoOffendingKeyGetsThrough
    /\ (VisitFailed /\ OffendingKeys(VisitedDefinition) # {}
            /\ WellPlaced(VisitedDefinition))
          => error.kind = "FieldNotFoundError"

\* Two keys are no fields; the first one is named.
C10_Witness ==
    /\ VisitFailed
    /\ error = Err("FieldNotFoundError", "zz", "Post")
    /\ Cardinality(OffendingKeys(VisitedDefinition)) = 2
    /\ DeclaredShape(VisitedDefinition)[2].key = "yy"
    /\ searchableObjectTypeDefinitions = <<>>

(***************************************************************************)
(* C11: the visit of an annotated type fails with DirectiveUsageError      *)
(* exactly when its directive list has no model directive or the           *)
(* searchable directive does not stand right after the model directive     *)
(* (positions read as first occurrences).  The failure happens in the      *)
(* visit: the type is not recorded and no worklist or TypeIndex step of    *)
(* the run has taken place.  A well placed type is never turned down by    *)
(* this check, and a badly placed one never gets past it.                  *)
(***************************************************************************)
C11_DirectiveUsageErrorIffBadlyPlaced ==
    /\ \A i \in DOMAIN searchableObjectTypeDefinitions :
          WellPlaced(searchableObjectTypeDefinitions[i].node)
    /\ \A i \in DOMAIN inputDocument :
          (i < cursor /\ IsAnnotated(inputDocument[i]))
              => WellPlaced(inputDocument[i])
    /\ VisitFailed =>
          /\ error.kind = "DirectiveUsageError" <=> ~WellPlaced(VisitedDefinition)
          /\ error.kind = "DirectiveUsageError" =>
                /\ error.name = "model" <=>
                       \A i \in DOMAIN VisitedDefinition.directives :
                           VisitedDefinition.directives[i].name # "model"
                /\ \A i \in DOMAIN searchableObjectTypeDefinitions :
                       searchableObjectTypeDefinitions[i].node # VisitedDefinition
                /\ popped = <<>>
                /\ visitedTypes = <<>>
                /\ notFoundSchemaTypes = <<>>
    /\ error.kind = "DirectiveUsageError" => VisitFailed

\* The model directive is there, but another directive stands between it
\* and the searchable directive.
C11_Witness ==
    /\ VisitFailed
    /\ error = Err("DirectiveUsageError", "position", "Post")
    /\ [i \in DOMAIN VisitedDefinition.directives |->
           VisitedDefinition.directives[i].name]
         = <<"model", "auth", directiveName>>
    /\ searchableObjectTypeDefinitions = <<>>

(***************************************************************************)
(* Vocabulary of the resolved schemas.                                     *)
(***************************************************************************)
\* Declarations of either kind under the name n.
DeclarationsNamed(document, n) ==
    Cardinality({i \in DOMAIN document : document[i].name = n})

\* The mapping refers by name only, and every name it reaches is declared
\* once, as an object type whose fields are mapped scalars, enums or such
\* object types again, or as an enum, and lies on no cycle.
ChainLike(shape, document) ==
    /\ \A i \in DOMAIN shape : shape[i].value.type = "string"
    /\ \A n \in ReachableTypes(shape, document) :
          /\ IsDeclared(document, n)
          /\ DeclarationsNamed(document, n) = 1
          /\ ~OnCycle(document, n)

\* String -> string, Int -> number, Float -> number, Boolean -> boolean.
ScalarMarker(n) ==
    CASE n = "String" -> "string"
      [] n \in {"Int", "Float"} -> "number"
      [] n = "Boolean" -> "boolean"

\* The nested schema of a declared, acyclic type: an enum is a string, an
\* object type has every declared field, in declaration order.
RECURSIVE NestedSchema(_, _)
NestedSchema(document, n) ==
    IF n \in VALID_SCHEMA_TYPES
    THEN Primitive(n)
    ELSE IF IsEnumType(document, n)
    THEN Primitive("string")
    ELSE LET fs == customObjectTypes(document)[
                       FindByName(customObjectTypes(document), n)].fields
         IN SchemaOf([i \in DOMAIN fs |->
                Entry(fs[i].name,
                      LET t == InnermostNamed(fs[i].type).name
                      IN IF t \in MappedScalars
                         THEN Primitive(ScalarMarker(t))
                         ELSE NestedSchema(document, t))])

ExpectedSchema(shape, document) ==
    SchemaOf([i \in DOMAIN shape |->
        Entry(shape[i].key, NestedSchema(document, shape[i].value.value))])

\* Levels of nesting of a schema: 0 for a primitive marker.
RECURSIVE Depth(_)
Depth(schema) ==
    IF schema.tag # "schema"
    THEN 0
    ELSE LET ds == {Depth(schema.entries[i].value) : i \in DOMAIN schema.entries}
         IN 1 + (IF ds = {} THEN 0 ELSE CHOOSE d \in ds : \A e \in ds : d >= e)

(***************************************************************************)
(* C12: a mapping that refers to chains of distinct, acyclic, declared     *)
(* object types whose other fields are mapped scalars or enums is          *)
(* resolved, and the schema attached has, level by level, every declared   *)
(* field of the types of the chain, mapped to its primitive marker.        *)
(* Refuted through C1 and C2: a type that is reached a second time, by the *)
(* same mapping or by the mapping of a later entity, is reported as a      *)
(* circular reference.                                                     *)
(***************************************************************************)
C12_ChainResolvesNested ==
    /\ ResolutionFailed => ~ChainLike(ShapeOf(FailedEntity), inputDocument)
    /\ (JustAttached /\ ChainLike(ShapeOf(AttachedEntity), inputDocument))
          => AttachedEntity.schema =
                 ExpectedSchema(ShapeOf(AttachedEntity), inputDocument)

\* A primitive marker, or a mapping whose values are such trees.
RECURSIVE OnlyPrimitiveLeaves(_)
OnlyPrimitiveLeaves(schema) ==
    IF schema.tag = "primitive"
    THEN schema.leaf \in {"string", "number", "boolean"}
    ELSE /\ schema.tag = "schema"
         /\ \A i \in DOMAIN schema.entries :
                OnlyPrimitiveLeaves(schema.entries[i].value)

(***************************************************************************)
(* C13: every schema attached to an entity of the list is a mapping whose  *)
(* leaves, at every level of nesting, are the primitive markers string,    *)
(* number and boolean; it has one entry per key of the entity's mapping.   *)
(***************************************************************************)
C13_AttachedSchemaLeavesArePrimitive ==
    \A i \in DOMAIN searchableObjectTypeDefinitions :
        LET definition == searchableObjectTypeDefinitions[i]
        IN definition.schema # UndefinedSchema =>
              /\ definition.schema.tag = "schema"
              /\ OnlyPrimitiveLeaves(definition.schema)
              /\ [j \in DOMAIN definition.schema.entries |->
                     definition.schema.entries[j].key]
                   = [j \in DOMAIN ShapeOf(definition) |-> ShapeOf(definition)[j].key]

\* A schema of three levels has been attached, one of its leaves standing
\* for an enum.
C13_Witness ==
    /\ JustAttached
    /\ ShapeOf(AttachedEntity) = <<Entry("pic", Str("A"))>>
    /\ IsEnumType(inputDocument, "E")
    /\ "E" \in ReachableTypes(ShapeOf(AttachedEntity), inputDocument)
    /\ Depth(AttachedEntity.schema) = 3

(***************************************************************************)
(* Vocabulary of termination.                                              *)
(***************************************************************************)
\* validate is inside its loop over the entities.
InValidation == pc \in {"resolve", "worklist"}

StoredNames == {visitedTypes[i].key : i \in DOMAIN visitedTypes}

\* The declared names validate has not stored yet.
Unstored == {inputDocument[i].name : i \in DOMAIN inputDocument} \ StoredNames

\* The names that were expanded or stored: every name shifted off the
\* worklist, but for the one whose shift raised the error.
Expanded ==
    IF pc = "failed" /\ error.kind \in {"CircularReferenceError",
                                         "UnknownSchemaTypeError"}
    THEN Front(popped)
    ELSE popped

\* A measure of the work validate has left: the entities from index on,
\* the head of the loop still to pass, the names not yet stored.
Variant ==
    2 * (Len(searchableObjectTypeDefinitions) - index)
        + (IF pc = "resolve" THEN 1 ELSE 0)
        + Cardinality(Unstored)

\* The names the stored field map of key k refers to.
MapRefs(visited, k) ==
    LET value == GetKey(visited, k)
    IN IF value.isArray
       THEN {}
       ELSE {value.fields[i].value : i \in DOMAIN value.fields}
                \ {"string", "number", "boolean"}

RECURSIVE MapReachable(_, _, _)
MapReachable(visited, frontier, seen) ==
    IF frontier \subseteq seen
    THEN seen
    ELSE MapReachable(visited,
                      UNION {IF HasKey(visited, k) THEN MapRefs(visited, k) ELSE {}
                             : k \in frontier \ seen},
                      seen \cup frontier)

\* Every name a stored field map refers to is a key of the Map, and no key
\* is reached from itself: the expansion of any key is a finite tree.
MapWellFounded(visited) ==
    \A i \in DOMAIN visited :
        LET k == visited[i].key
        IN /\ MapRefs(visited, k) \subseteq {visited[j].key : j \in DOMAIN visited}
           /\ k \notin MapReachable(visited, MapRefs(visited, k), {})

(***************************************************************************)
(* C14: validation terminates.  Every step validate takes inside its loop  *)
(* either leaves the loop (all entities done, or an error) or lowers a     *)
(* measure that is a natural number; no name is expanded or stored twice   *)
(* in a run, although expansion pushes new names; and when the worklist of *)
(* an entity has run empty without an error, every name a stored field map *)
(* refers to is stored and none is reached from itself, so that the        *)
(* recursion of getSchema ends.                                            *)
(***************************************************************************)
C14_ValidationTerminates ==
    [][/\ InValidation => (~InValidation' \/ Variant' < Variant)
       /\ Variant' \in Nat
       /\ NoRepeats(Expanded')
       /\ Len(visitedTypes') = Cardinality(StoredNames')
       /\ (pc' = "worklist" /\ notFoundSchemaTypes' = <<>>)
              => MapWellFounded(visitedTypes')]_vars

\* Expansion has pushed names that the mapping does not hold, and the
\* schema was attached after three names had been shifted off.
C14_Witness ==
    /\ JustAttached
    /\ ShapeOf(AttachedEntity) = <<Entry("pic", Str("A"))>>
    /\ popped = <<"A", "E", "B">>
    /\ StoredNames = {"A", "E", "B"}
    /\ Depth(AttachedEntity.schema) = 3

(***************************************************************************)
(* Vocabulary of the object-shaped literals.                               *)
(***************************************************************************)
HasObjectLiteral(shape) == \E i \in DOMAIN shape : shape[i].value.type = "object"

\* No record with an object-shaped literal carries a schema, and while the
\* worklist of such an entity is worked off the literal stands in it, or
\* has stood in it, as the name "object".
LiteralNeverResolved ==
    /\ \A i \in DOMAIN searchableObjectTypeDefinitions :
          HasObjectLiteral(ShapeOf(searchableObjectTypeDefinitions[i]))
              => searchableObjectTypeDefinitions[i].schema = UndefinedSchema
    /\ (pc = "worklist" /\
           HasObjectLiteral(ShapeOf(searchableObjectTypeDefinitions[index + 1])))
          => "object" \in Range(notFoundSchemaTypes) \cup Range(popped)

\* The unknown-type error for the name "object".
FailedOnObjectName ==
    /\ error = Err("UnknownSchemaTypeError", "object", "")
    /\ ~IsDeclared(inputDocument, "object")

\* The worklist ran empty with "object" stored, and the expansion pass
\* threw on the literal.
FailedInExpansionPass ==
    /\ error = Err("UnsupportedSchemaTypeError", "[object Object]", "")
    /\ IsDeclared(inputDocument, "object")
    /\ "object" \in StoredNames
    /\ notFoundSchemaTypes = <<>>

(***************************************************************************)
(* C15 as stated: an entity whose mapping holds an object-shaped literal   *)
(* never gets a schema; its resolution fails with the unknown-type error   *)
(* for "object" or, when the document declares a type named "object", in   *)
(* the expansion pass.                                                     *)
(* Refuted: another value of the mapping may raise its own error first.    *)
(***************************************************************************)
C15_LiteralFailsOnObjectOrInExpansion ==
    /\ LiteralNeverResolved
    /\ (ResolutionFailed /\ HasObjectLiteral(ShapeOf(FailedEntity)))
          => (FailedOnObjectName \/ FailedInExpansionPass)

(***************************************************************************)
(* C15 amended: an entity whose mapping holds an object-shaped literal     *)
(* never gets a schema; the literal enters the worklist as the name        *)
(* "object", and resolution fails with the unknown-type error for "object" *)
(* or, when the document declares a type named "object", in the expansion  *)
(* pass, unless an error is thrown before that: the                        *)
(* UnsupportedSchemaTypeError for the first illegal value kind, the        *)
(* UnknownSchemaTypeError for an undeclared name shifted off earlier, or   *)
(* the CircularReferenceError for a name shifted off a second time.        *)
(***************************************************************************)
C15_LiteralNeverGetsSchema ==
    /\ LiteralNeverResolved
    /\ (ResolutionFailed /\ HasObjectLiteral(ShapeOf(FailedEntity)))
          => \/ FailedOnObjectName
             \/ FailedInExpansionPass
             \/ /\ HasIllegalKind(ShapeOf(FailedEntity))
                /\ error = Err("UnsupportedSchemaTypeError",
                               FirstIllegalKind(ShapeOf(FailedEntity)), "")
                /\ notFoundSchemaTypes = <<>>
             \/ /\ error.kind = "UnknownSchemaTypeError"
                /\ popped # <<>>
                /\ error.name = popped[Len(popped)]
                /\ error.name # "object"
                /\ ~IsDeclared(inputDocument, error.name)
             \/ /\ error.kind = "CircularReferenceError"
                /\ popped # <<>>
                /\ error.name = popped[Len(popped)]
                /\ error.name \in Range(Front(popped))

\* The document declares a type named "object": it is stored, the worklist
\* runs empty and the expansion pass throws on the literal.
C15_Witness ==
    /\ ResolutionFailed
    /\ HasObjectLiteral(ShapeOf(FailedEntity))
    /\ FailedInExpansionPass
    /\ popped = <<"object">>
    /\ FailedEntity.schema = UndefinedSchema

====
